---- MODULE Spec2Model ----
(***************************************************************************)
(* Model of linux-examples/hiddev/jabra_hiddev_demo.c: the call-control    *)
(* demo for Jabra headsets over the Linux hiddev interface.                *)
(*                                                                         *)
(* Two threads share the globals fd, mutestate, hookstate, ringerstate,    *)
(* run and the mutex `lock`: main() (startup, the command loop, hit_key)   *)
(* and event_loop() (the hardware event task).  The threads interleave      *)
(* between any two statements that touch a shared global or the device.    *)
(***************************************************************************)
EXTENDS Integers, Sequences, FiniteSets, TLC

(***************************************************************************)
(* Bounds of the model.                                                    *)
(***************************************************************************)
\* largest value a hardware event carries (hiddev_event.value is an __s32;
\* the smallest modelled value is -1)
MaxEvValue == 2
\* largest number of whole event records one read() returns (the code reads
\* up to 64)
MaxBatch == 1
\* largest number of device requests the device rejects in one run
MaxFail == 1

(***************************************************************************)
(* Program constants.                                                      *)
(***************************************************************************)
TelephonyUsagePage == 11
ConsumerUsagePage == 12
LEDUsagePage == 8
ButtonUsagePage == 9
Led_Mute == 9
Led_Off_Hook == 23
Led_Ring == 24
Tel_Hook_Switch == 32
Tel_Flash == 33
Tel_Phone_Mute == 47
Tel_Ringer == 158
Con_Volume_Incr == 233
Con_Volume_Decr == 234
\* sizeof(ev[0]): struct hiddev_event is { unsigned hid; signed int value; }
EvSize == 8
\* 1 << 16, the shift of the usage page inside a usage code
PageShift == 65536

Threads == {"main", "ev"}

(***************************************************************************)
(* Pure helpers.                                                           *)
(***************************************************************************)
\* (page << 16) | code
UsageCode(page, code) == page * PageShift + code
\* ev[i].hid >> 16
PageOf(hid) == hid \div PageShift
\* ev[i].hid & 0xFFFF
CodeOf(hid) == hid % PageShift

\* C's logical negation !x on an int
NotC(x) == IF x = 0 THEN 1 ELSE 0

\* the exit status the parent sees for `return retval` from main
ExitStatus(r) == r % 256

\* the four output usages the program writes
U_Mute == UsageCode(LEDUsagePage, Led_Mute)
U_OffHook == UsageCode(LEDUsagePage, Led_Off_Hook)
U_Ring == UsageCode(LEDUsagePage, Led_Ring)
U_Ringer == UsageCode(TelephonyUsagePage, Tel_Ringer)
OutputUsages == {U_Mute, U_OffHook, U_Ring, U_Ringer}

\* the field metadata HIDIOCGFIELDINFO returns for an output usage: the
\* on/off controls of the headset are one-bit fields
FieldInfo(u) == [logical_minimum |-> 0, logical_maximum |-> 1]

\* the values the output usages of the device can hold when the program starts
DevValues == 0..1
\* the values an event record can carry
EvValues == (-1)..MaxEvValue
\* the event records the device sends: hook-switch and mute-button records
\* of every value, and a press (value 1) of the flash button, of the two
\* volume buttons and of a button of the Button page
EvRecords ==
  { [hid |-> UsageCode(TelephonyUsagePage, c), value |-> v] :
      c \in {Tel_Hook_Switch, Tel_Phone_Mute}, v \in EvValues }
  \cup { [hid |-> h, value |-> 1] :
      h \in { UsageCode(TelephonyUsagePage, Tel_Flash),
              UsageCode(ConsumerUsagePage, Con_Volume_Incr),
              UsageCode(ConsumerUsagePage, Con_Volume_Decr),
              UsageCode(ButtonUsagePage, 1) } }
\* the byte counts read(fd, ev, sizeof(ev)) returns: an error, nothing, half
\* a record, or a number of whole records
RdValues == {-1, 0, EvSize \div 2} \cup { k * EvSize : k \in 1..MaxBatch }

NoEvent == [hid |-> 0, value |-> 0]
NoCall == [fn |-> "none", usage_code |-> 0, value |-> 0, log |-> <<>>, res |-> "none",
           before |-> [u \in OutputUsages |-> 0]]
NoSnap == [mute |-> 0, hook |-> 0, ring |-> 0, op |-> "none"]

VARIABLES
  fd,           \* the device handle: 3 when open, -1 when open() failed, -2 when closed
  mutestate, hookstate, ringerstate, run,   \* the globals of the program
  lock,         \* owner of the pthread mutex: "none", "main" or "ev"
  retval,       \* main's retval
  evret,        \* the value event_loop returned (0 or -1)
  status,       \* the process exit status, meaningful once pc["main"] = "exit"
  dev,          \* the value of each output usage of the device
  pc,           \* position of each thread
  last,         \* history: the last writeUsage / readUsage call of each thread in
                \* its current critical section: usage, value, the requests it
                \* issued, how it ended and the device's values before it
  rd, i, ev,    \* event_loop's locals: bytes read, loop index, ev[i]
  key,          \* hit_key's argument
  cslog,        \* history: the writeUsage calls of the current critical section
  snap,         \* history: the stored state when the lock was taken, and the operation
  lastCmd,      \* history: the last toggle command and the state before it
  hookSeq,      \* history: the initial hook state XORed with one flip for every
                \* hook-affecting operation, in the order they took the lock
  nfail,        \* history: number of device requests rejected so far
  csok,         \* history: every writeUsage of the current critical section succeeded
  quitcmd,      \* history: the quit command was issued
  badread       \* history: an event read was short or failed

progvars == <<fd, mutestate, hookstate, ringerstate, run, lock, retval, evret, status>>
devvars == <<dev>>
callvars == <<last>>
evvars == <<rd, i, ev>>
histvars == <<cslog, csok, snap, lastCmd, hookSeq, nfail,
              quitcmd, badread>>
flags == <<nfail, quitcmd, badread>>
vars == <<progvars, devvars, callvars, evvars, histvars, pc, key>>

(***************************************************************************)
(* Initial state: the statics of the program as the loader sets them, and  *)
(* a device whose output usages hold any values of their fields.           *)
(***************************************************************************)
Init ==
  /\ fd = -2
  /\ mutestate = 0 /\ hookstate = 0 /\ ringerstate = 0
  /\ run = 1
  /\ lock = "none"
  /\ retval = 0 /\ evret = 0 /\ status = 0
  /\ dev \in [OutputUsages -> DevValues]
  /\ pc = [t \in Threads |-> IF t = "main" THEN "scan" ELSE "unborn"]
  /\ last = [t \in Threads |-> NoCall]
  /\ rd = 0 /\ i = 0 /\ ev = NoEvent
  /\ key = "?"
  /\ cslog = [t \in Threads |-> <<>>]
  /\ csok = [t \in Threads |-> TRUE]
  /\ snap = [t \in Threads |-> NoSnap]
  /\ lastCmd = NoSnap
  /\ hookSeq = 0
  /\ nfail = 0 /\ quitcmd = FALSE /\ badread = FALSE

(***************************************************************************)
(* The device behind the hiddev handle, and the two functions that talk to *)
(* it.  A call of writeUsage or readUsage is one step: every call is made  *)
(* under the mutex or before the event thread exists, so no step of the    *)
(* other thread falls between two device requests of one call.             *)
(***************************************************************************)
\* which request of a call the device rejects (ioctl < 0): 0 for none, k for
\* the k-th request the call would issue.  On a handle that is not open the
\* first request is rejected
FailChoices ==
  IF fd # 3 THEN {1} ELSE IF nfail < MaxFail THEN 0..4 ELSE {0}

\* the range test with the lower bound forgotten
OutOfRangeAboveOnly(value, finfo) == value > finfo.logical_maximum

\* (value < finfo.logical_minimum) || (value > finfo.logical_maximum)
OutOfRange(value, finfo) ==
  (value < finfo.logical_minimum) \/ (value > finfo.logical_maximum)

\* writeUsage with the field lookup (and so the range test) left out
writeUsageNoFieldInfo(u, value, failAt) ==
  IF failAt = 1
  THEN [log |-> <<"HIDIOCGUSAGE">>, res |-> "HIDIOCGUSAGE", dev |-> dev]
  ELSE IF failAt = 3
  THEN [log |-> <<"HIDIOCGUSAGE", "HIDIOCSUSAGE">>, res |-> "HIDIOCSUSAGE", dev |-> dev]
  ELSE IF failAt = 4
  THEN [log |-> <<"HIDIOCGUSAGE", "HIDIOCSUSAGE", "HIDIOCSREPORT">>,
        res |-> "HIDIOCSREPORT", dev |-> dev]
  ELSE [log |-> <<"HIDIOCGUSAGE", "HIDIOCSUSAGE", "HIDIOCSREPORT">>,
        res |-> "ok", dev |-> [dev EXCEPT ![u] = value]]

\* writeUsage that returns after HIDIOCSUSAGE: the report is never committed
writeUsageNoCommit(u, value, failAt) ==
  IF failAt = 1
  THEN [log |-> <<"HIDIOCGUSAGE">>, res |-> "HIDIOCGUSAGE", dev |-> dev]
  ELSE IF failAt = 2
  THEN [log |-> <<"HIDIOCGUSAGE", "HIDIOCGFIELDINFO">>,
        res |-> "HIDIOCGFIELDINFO", dev |-> dev]
  ELSE IF (value < FieldInfo(u).logical_minimum) \/ (value > FieldInfo(u).logical_maximum)
  THEN [log |-> <<"HIDIOCGUSAGE", "HIDIOCGFIELDINFO">>, res |-> "range", dev |-> dev]
  ELSE IF failAt = 3
  THEN [log |-> <<"HIDIOCGUSAGE", "HIDIOCGFIELDINFO", "HIDIOCSUSAGE">>,
        res |-> "HIDIOCSUSAGE", dev |-> dev]
  ELSE [log |-> <<"HIDIOCGUSAGE", "HIDIOCGFIELDINFO", "HIDIOCSUSAGE">>,
        res |-> "ok", dev |-> dev]

\* writeUsage(fd, HID_REPORT_TYPE_OUTPUT, page, code, value) on usage u:
\* the requests it issues, how it ends, and the device's values afterwards
writeUsage(u, value, failAt) ==
  IF failAt = 1
  THEN [log |-> <<"HIDIOCGUSAGE">>, res |-> "HIDIOCGUSAGE", dev |-> dev]
  ELSE IF failAt = 2
  THEN [log |-> <<"HIDIOCGUSAGE", "HIDIOCGFIELDINFO">>,
        res |-> "HIDIOCGFIELDINFO", dev |-> dev]
  ELSE IF OutOfRange(value, FieldInfo(u))
  THEN [log |-> <<"HIDIOCGUSAGE", "HIDIOCGFIELDINFO">>, res |-> "range", dev |-> dev]
  ELSE IF failAt = 3
  THEN [log |-> <<"HIDIOCGUSAGE", "HIDIOCGFIELDINFO", "HIDIOCSUSAGE">>,
        res |-> "HIDIOCSUSAGE", dev |-> dev]
  ELSE IF failAt = 4
  THEN [log |-> <<"HIDIOCGUSAGE", "HIDIOCGFIELDINFO", "HIDIOCSUSAGE", "HIDIOCSREPORT">>,
        res |-> "HIDIOCSREPORT", dev |-> dev]
  ELSE [log |-> <<"HIDIOCGUSAGE", "HIDIOCGFIELDINFO", "HIDIOCSUSAGE", "HIDIOCSREPORT">>,
        res |-> "ok", dev |-> [dev EXCEPT ![u] = value]]

\* readUsage(fd, HID_REPORT_TYPE_OUTPUT, page, code, &value) on usage u:
\* `set` tells whether *value was assigned.  The report is committed after
\* the read as well, with the values the device already has
readUsage(u, failAt) ==
  IF failAt = 1
  THEN [log |-> <<"HIDIOCGUSAGE">>, res |-> "HIDIOCGUSAGE", set |-> FALSE]
  ELSE IF failAt = 2
  THEN [log |-> <<"HIDIOCGUSAGE", "HIDIOCGFIELDINFO">>,
        res |-> "HIDIOCGFIELDINFO", set |-> FALSE]
  ELSE IF failAt = 3
  THEN [log |-> <<"HIDIOCGUSAGE", "HIDIOCGFIELDINFO", "HIDIOCGUSAGE">>,
        res |-> "HIDIOCGUSAGE", set |-> FALSE]
  ELSE IF failAt = 4
  THEN [log |-> <<"HIDIOCGUSAGE", "HIDIOCGFIELDINFO", "HIDIOCGUSAGE", "HIDIOCSREPORT">>,
        res |-> "HIDIOCSREPORT", set |-> TRUE]
  ELSE [log |-> <<"HIDIOCGUSAGE", "HIDIOCGFIELDINFO", "HIDIOCGUSAGE", "HIDIOCSREPORT">>,
        res |-> "ok", set |-> TRUE]

\* whether a call ended because the device rejected a request
Rejected(res) == res \notin {"ok", "range"}

\* a call site whose thread leaves its section without the unlock when the
\* call did not succeed
CallWriteLeaks(t, site, u, v, next) ==
  /\ pc[t] = site
  /\ \E f \in FailChoices :
       LET r == writeUsage(u, v, f) IN
         /\ dev' = r.dev
         /\ last' = [last EXCEPT ![t] = [fn |-> "writeUsage", usage_code |-> u, value |-> v,
                                         log |-> r.log, res |-> r.res, before |-> dev]]
         /\ csok' = [csok EXCEPT ![t] = @ /\ r.res = "ok"]
         /\ nfail' = IF Rejected(r.res) /\ fd = 3 THEN nfail + 1 ELSE nfail
         /\ pc' = [pc EXCEPT ![t] = IF r.res = "ok" THEN next
                                    ELSE IF t = "main" THEN "loop" ELSE "e_loop"]
  /\ cslog' = [cslog EXCEPT ![t] = Append(@, [usage_code |-> u, value |-> v])]
  /\ UNCHANGED <<progvars, evvars, key>>
  /\ UNCHANGED <<snap, lastCmd, hookSeq, quitcmd, badread>>

\* a call site of writeUsage in thread t, followed by the statement at `next`
CallWrite(t, site, u, v, next) ==
  /\ pc[t] = site
  /\ \E f \in FailChoices :
       LET r == writeUsage(u, v, f) IN
         /\ dev' = r.dev
         /\ last' = [last EXCEPT ![t] = [fn |-> "writeUsage", usage_code |-> u, value |-> v,
                                         log |-> r.log, res |-> r.res, before |-> dev]]
         /\ csok' = [csok EXCEPT ![t] = @ /\ r.res = "ok"]
         /\ nfail' = IF Rejected(r.res) /\ fd = 3 THEN nfail + 1 ELSE nfail
  /\ cslog' = [cslog EXCEPT ![t] = Append(@, [usage_code |-> u, value |-> v])]
  /\ pc' = [pc EXCEPT ![t] = next]
  /\ UNCHANGED <<progvars, evvars, key>>
  /\ UNCHANGED <<snap, lastCmd, hookSeq, quitcmd, badread>>

\* a call site of readUsage in main: the stored state it passes is assigned
\* when the call gets as far as *value = uref.value
CallRead(site, u, next) ==
  /\ pc["main"] = site
  /\ \E f \in FailChoices :
       LET r == readUsage(u, f) IN
         /\ last' = [last EXCEPT !["main"] = [fn |-> "readUsage", usage_code |-> u,
                                              value |-> dev[u], log |-> r.log,
                                              res |-> r.res, before |-> dev]]
         /\ nfail' = IF Rejected(r.res) /\ fd = 3 THEN nfail + 1 ELSE nfail
         /\ mutestate' = IF r.set /\ u = U_Mute THEN dev[u] ELSE mutestate
         /\ hookstate' = IF r.set /\ u = U_OffHook THEN dev[u] ELSE hookstate
         /\ ringerstate' = IF r.set /\ u = U_Ring THEN dev[u] ELSE ringerstate
  /\ pc' = [pc EXCEPT !["main"] = next]
  /\ UNCHANGED <<fd, run, lock, retval, evret, status, dev, evvars, key>>
  /\ UNCHANGED <<cslog, csok, snap, lastCmd, hookSeq, quitcmd, badread>>

(***************************************************************************)
(* The mutex.                                                              *)
(***************************************************************************)
\* a lock that is handed out whoever holds it
LockAlwaysAvailable(t) == TRUE

\* pthread_mutex_lock(&lock) returns once no thread holds the mutex
LockAvailable(t) == lock = "none"

\* the bit-wise XOR of two bits
Xor(a, b) == (a + b) % 2

\* the stored call state and the operation that is about to change it
Snapshot(op) == [mute |-> mutestate, hook |-> hookstate, ring |-> ringerstate, op |-> op]

(***************************************************************************)
(* main(): device discovery, startup, the command loop, shutdown           *)
(***************************************************************************)
\* `return r` from main
Return(r) ==
  /\ pc' = [pc EXCEPT !["main"] = "exit"]
  /\ status' = ExitStatus(r)

\* the scan of /dev/usb/hiddev0..18 with doListDev: a Jabra device is found or not
Main_Scan ==
  /\ pc["main"] = "scan"
  /\ \E found \in BOOLEAN :
       IF found THEN pc' = [pc EXCEPT !["main"] = "open"] /\ UNCHANGED status
                ELSE Return(-1)
  /\ UNCHANGED <<fd, mutestate, hookstate, ringerstate, run, lock, retval, evret>>
  /\ UNCHANGED <<devvars, callvars, evvars, histvars, key>>

\* open(name, O_RDONLY): only EACCES ends the program; after any other
\* failure main goes on with fd = -1.  The stored states are then zeroed.
Main_Open ==
  /\ pc["main"] = "open"
  /\ \E res \in {"ok", "EACCES", "other"} :
       IF res = "EACCES"
       THEN Return(-1) /\ UNCHANGED <<fd, mutestate, hookstate, ringerstate>>
       ELSE /\ fd' = IF res = "ok" THEN 3 ELSE -1
            /\ mutestate' = 0 /\ hookstate' = 0 /\ ringerstate' = 0
            /\ pc' = [pc EXCEPT !["main"] = "read_mute"]
            /\ UNCHANGED status
  /\ UNCHANGED <<run, lock, retval, evret>>
  /\ UNCHANGED <<devvars, callvars, evvars, histvars, key>>

\* the three startup reads of the LED usages
Main_ReadInitial ==
  \/ CallRead("read_mute", U_Mute, "read_hook")
  \/ CallRead("read_hook", U_OffHook, "read_ring")
  \/ CallRead("read_ring", U_Ring, "create")

\* pthread_create(&event_thread, NULL, event_loop, &retval)
Main_Create ==
  /\ pc["main"] = "create"
  /\ \E ok \in BOOLEAN :
       IF ok THEN /\ pc' = [pc EXCEPT !["main"] = "loop", !["ev"] = "e_loop"]
                  /\ UNCHANGED <<fd, status>>
             ELSE /\ fd' = -2
                  /\ Return(-1)
  /\ hookSeq' = hookstate
  /\ last' = [last EXCEPT !["main"] = NoCall]
  /\ UNCHANGED <<mutestate, hookstate, ringerstate, run, lock, retval, evret>>
  /\ UNCHANGED <<devvars, evvars, cslog, csok, snap, lastCmd, flags, key>>

\* a command loop that never tests run
Main_LoopIgnoresRun ==
  /\ pc["main"] = "loop"
  /\ pc' = [pc EXCEPT !["main"] = "poll"]
  /\ UNCHANGED <<progvars, devvars, callvars, evvars, histvars, key>>

\* while (run == 1)
Main_Loop ==
  /\ pc["main"] = "loop"
  /\ pc' = [pc EXCEPT !["main"] = IF run = 1 THEN "poll" ELSE "join"]
  /\ UNCHANGED <<progvars, devvars, callvars, evvars, histvars, key>>

\* if (read(0, &c, 1) == 1) hit_key(c): no character is waiting
Main_PollNone ==
  /\ pc["main"] = "poll"
  /\ pc' = [pc EXCEPT !["main"] = "loop"]
  /\ UNCHANGED <<progvars, devvars, callvars, evvars, histvars, key>>

\* hit_key(c), the switch: the toggles go on to take the lock
HitKey_Toggle ==
  /\ pc["main"] = "poll"
  /\ \E c \in {"o", "m", "r"} :
       /\ key' = c
       /\ pc' = [pc EXCEPT !["main"] = "k_lock"]
  /\ UNCHANGED <<progvars, devvars, callvars, evvars, histvars>>

\* case 'q': run = 0
HitKey_Quit ==
  /\ pc["main"] = "poll"
  /\ run' = 0
  /\ quitcmd' = TRUE
  /\ lastCmd' = NoSnap
  /\ pc' = [pc EXCEPT !["main"] = "loop"]
  /\ UNCHANGED <<fd, mutestate, hookstate, ringerstate, lock, retval, evret, status>>
  /\ UNCHANGED <<devvars, callvars, evvars, cslog, csok, snap, hookSeq, nfail, badread, key>>

\* case '?' and default: nothing but output
HitKey_Other ==
  /\ pc["main"] = "poll"
  /\ lastCmd' = NoSnap
  /\ pc' = [pc EXCEPT !["main"] = "loop"]
  /\ UNCHANGED <<progvars, devvars, callvars, evvars, cslog, csok, snap, hookSeq, flags, key>>

\* pthread_mutex_lock(&lock) of the cases 'o', 'm' and 'r'
HitKey_Lock ==
  /\ pc["main"] = "k_lock"
  /\ LockAvailable("main")
  /\ lock' = "main"
  /\ snap' = [snap EXCEPT !["main"] = Snapshot(key)]
  /\ pc' = [pc EXCEPT !["main"] = key \o "_flip"]
  /\ hookSeq' = IF key = "o" THEN Xor(hookSeq, 1) ELSE hookSeq
  /\ UNCHANGED <<fd, mutestate, hookstate, ringerstate, run, retval, evret, status>>
  /\ UNCHANGED <<devvars, callvars, evvars, cslog, csok, lastCmd, flags, key>>

\* a toggle of the hook that cancels the ring in both directions
HitKey_o_FlipAlwaysCancel ==
  /\ pc["main"] = "o_flip"
  /\ hookstate' = NotC(hookstate)
  /\ pc' = [pc EXCEPT !["main"] = "o_ring"]
  /\ UNCHANGED <<fd, mutestate, ringerstate, run, lock, retval, evret, status>>
  /\ UNCHANGED <<devvars, callvars, evvars, histvars, key>>

\* case 'o': hookstate = !hookstate; if (hookstate == 1) the ring is cancelled
HitKey_o_Flip ==
  /\ pc["main"] = "o_flip"
  /\ hookstate' = NotC(hookstate)
  /\ pc' = [pc EXCEPT !["main"] = IF hookstate' = 1 THEN "o_ring" ELSE "o_hook"]
  /\ UNCHANGED <<fd, mutestate, ringerstate, run, lock, retval, evret, status>>
  /\ UNCHANGED <<devvars, callvars, evvars, histvars, key>>

HitKey_o_Writes ==
  \/ CallWrite("main", "o_ring", U_Ring, 0, "o_ringer")
  \/ CallWrite("main", "o_ringer", U_Ringer, 0, "o_hook")
  \/ CallWrite("main", "o_hook", U_OffHook, hookstate, "k_unlock")

\* case 'm': mutestate = !mutestate
HitKey_m_Flip ==
  /\ pc["main"] = "m_flip"
  /\ mutestate' = NotC(mutestate)
  /\ pc' = [pc EXCEPT !["main"] = "m_led"]
  /\ UNCHANGED <<fd, hookstate, ringerstate, run, lock, retval, evret, status>>
  /\ UNCHANGED <<devvars, callvars, evvars, histvars, key>>

HitKey_m_Writes ==
  CallWrite("main", "m_led", U_Mute, mutestate, "k_unlock")

\* case 'r': ringerstate = !ringerstate
HitKey_r_Flip ==
  /\ pc["main"] = "r_flip"
  /\ ringerstate' = NotC(ringerstate)
  /\ pc' = [pc EXCEPT !["main"] = "r_led"]
  /\ UNCHANGED <<fd, mutestate, hookstate, run, lock, retval, evret, status>>
  /\ UNCHANGED <<devvars, callvars, evvars, histvars, key>>

\* a toggle of the ringer that writes the ring LED only
HitKey_r_WritesLedOnly ==
  CallWrite("main", "r_led", U_Ring, ringerstate, "k_unlock")

HitKey_r_Writes ==
  \/ CallWrite("main", "r_led", U_Ring, ringerstate, "r_ringer")
  \/ CallWrite("main", "r_ringer", U_Ringer, ringerstate, "k_unlock")

\* pthread_mutex_unlock(&lock) of the cases 'o', 'm' and 'r'
HitKey_Unlock ==
  /\ pc["main"] = "k_unlock"
  /\ lock' = "none"
  /\ lastCmd' = snap["main"]
  /\ snap' = [snap EXCEPT !["main"] = NoSnap]
  /\ cslog' = [cslog EXCEPT !["main"] = <<>>]
  /\ csok' = [csok EXCEPT !["main"] = TRUE]
  /\ last' = [last EXCEPT !["main"] = NoCall]
  /\ key' = "?"
  /\ pc' = [pc EXCEPT !["main"] = "loop"]
  /\ UNCHANGED <<fd, mutestate, hookstate, ringerstate, run, retval, evret, status>>
  /\ UNCHANGED <<devvars, evvars, hookSeq, flags>>

\* pthread_join(event_thread, NULL): returns 0 once the thread has ended, or
\* fails at once; the value the thread returned is not asked for
Main_Join ==
  /\ pc["main"] = "join"
  /\ \/ /\ pc["ev"] = "done"
        /\ UNCHANGED retval
     \/ retval' = -1
  /\ pc' = [pc EXCEPT !["main"] = "close"]
  /\ UNCHANGED <<fd, mutestate, hookstate, ringerstate, run, lock, evret, status>>
  /\ UNCHANGED <<devvars, callvars, evvars, histvars, key>>

\* close(fd)
Main_Close ==
  /\ pc["main"] = "close"
  /\ fd' = -2
  /\ pc' = [pc EXCEPT !["main"] = "return"]
  /\ UNCHANGED <<mutestate, hookstate, ringerstate, run, lock, retval, evret, status>>
  /\ UNCHANGED <<devvars, callvars, evvars, histvars, key>>

\* return retval: the process ends, and the event thread with it
Main_Return ==
  /\ pc["main"] = "return"
  /\ Return(retval)
  /\ UNCHANGED <<fd, mutestate, hookstate, ringerstate, run, lock, retval, evret>>
  /\ UNCHANGED <<devvars, callvars, evvars, histvars, key>>

main ==
  \/ Main_Scan \/ Main_Open \/ Main_ReadInitial \/ Main_Create
  \/ Main_Loop \/ Main_PollNone
  \/ HitKey_Toggle \/ HitKey_Quit \/ HitKey_Other \/ HitKey_Lock
  \/ HitKey_o_Flip \/ HitKey_o_Writes \/ HitKey_m_Flip \/ HitKey_m_Writes
  \/ HitKey_r_Flip \/ HitKey_r_Writes \/ HitKey_Unlock
  \/ Main_Join \/ Main_Close \/ Main_Return

(***************************************************************************)
(* event_loop(): the hardware event task                                   *)
(***************************************************************************)
\* the process, and so the event thread, runs until main returns
ProcessAlive == pc["main"] # "exit"

\* select(fd + 1, &fdset, NULL, NULL, &tv): ready, timeout after 1 s, or error
SelectOutcomes == IF fd = 3 THEN {-1, 0, 1} ELSE {-1}

\* read(fd, ev, sizeof(ev))
ReadOutcomes == IF fd = 3 THEN RdValues ELSE {-1}

\* a test that takes only a failed read for a short one
ShortReadErrorOnly(n) == n < 0

\* rd < (int) sizeof(ev[0])
ShortRead(n) == n < EvSize

\* rd / sizeof(ev[0]), for rd >= sizeof(ev[0])
NumEvents(n) == n \div EvSize

\* while (run == 1)
Ev_Loop ==
  /\ ProcessAlive
  /\ pc["ev"] = "e_loop"
  /\ IF run = 1
     THEN pc' = [pc EXCEPT !["ev"] = "e_select"] /\ UNCHANGED evret
     ELSE pc' = [pc EXCEPT !["ev"] = "done"] /\ evret' = 0
  /\ UNCHANGED <<fd, mutestate, hookstate, ringerstate, run, lock, retval, status>>
  /\ UNCHANGED <<devvars, callvars, evvars, histvars, key>>

\* int rd = select(...); if (rd > 0) ... ; fflush(stdout).  rd is a local of
\* the loop body: it is gone (0 here) when the loop starts over
Ev_Select ==
  /\ ProcessAlive
  /\ pc["ev"] = "e_select"
  /\ \E r \in SelectOutcomes :
       /\ rd' = IF r > 0 THEN r ELSE 0
       /\ pc' = [pc EXCEPT !["ev"] = IF r > 0 THEN "e_read" ELSE "e_loop"]
  /\ UNCHANGED <<progvars, devvars, callvars, i, ev, histvars, key>>

\* rd = read(fd, ev, sizeof(ev)); a short or failed read ends the thread
Ev_Read ==
  /\ ProcessAlive
  /\ pc["ev"] = "e_read"
  /\ \E r \in ReadOutcomes :
       /\ rd' = r
       /\ IF ShortRead(r)
          THEN /\ run' = 0
               /\ evret' = -1
               /\ badread' = TRUE
               /\ pc' = [pc EXCEPT !["ev"] = "done"]
               /\ UNCHANGED i
          ELSE /\ i' = 0
               /\ pc' = [pc EXCEPT !["ev"] = "e_for"]
               /\ UNCHANGED <<run, evret, badread>>
  /\ UNCHANGED <<fd, mutestate, hookstate, ringerstate, lock, retval, status>>
  /\ UNCHANGED <<devvars, callvars, ev, cslog, csok, snap, lastCmd, hookSeq, nfail,
                 quitcmd, key>>

\* for (i = 0; i < rd / sizeof(ev[0]); i++); after the loop rd and i are dead
Ev_For ==
  /\ ProcessAlive
  /\ pc["ev"] = "e_for"
  /\ IF i < NumEvents(rd)
     THEN /\ pc' = [pc EXCEPT !["ev"] = "e_lock"]
          /\ UNCHANGED <<rd, i>>
     ELSE /\ pc' = [pc EXCEPT !["ev"] = "e_loop"]
          /\ rd' = 0 /\ i' = 0
  /\ UNCHANGED <<progvars, devvars, callvars, ev, histvars, key>>

IsHookEvent(e) ==
  PageOf(e.hid) = TelephonyUsagePage /\ CodeOf(e.hid) = Tel_Hook_Switch
IsMuteEvent(e) ==
  PageOf(e.hid) = TelephonyUsagePage /\ CodeOf(e.hid) = Tel_Phone_Mute

\* pthread_mutex_lock(&lock) for ev[i].  The record ev[i] is first looked at
\* under the lock: it is any record the device can send
Ev_Lock ==
  /\ ProcessAlive
  /\ pc["ev"] = "e_lock"
  /\ LockAvailable("ev")
  /\ lock' = "ev"
  /\ ev' \in EvRecords
  /\ snap' = [snap EXCEPT !["ev"] = Snapshot("event")]
  /\ lastCmd' = NoSnap
  /\ pc' = [pc EXCEPT !["ev"] = "e_switch"]
  /\ hookSeq' = IF IsHookEvent(ev') /\ hookstate # ev'.value THEN Xor(hookSeq, 1)
                                                              ELSE hookSeq
  /\ UNCHANGED <<fd, mutestate, hookstate, ringerstate, run, retval, evret, status>>
  /\ UNCHANGED <<devvars, callvars, rd, i, cslog, csok, flags, key>>

\* the branch taken when a pickup does not cancel the ring
EventBranchNoCancel(e) ==
  IF PageOf(e.hid) = TelephonyUsagePage
  THEN IF CodeOf(e.hid) = Tel_Hook_Switch
       THEN IF hookstate # e.value THEN "e_hook" ELSE "e_unlock"
       ELSE IF CodeOf(e.hid) = Tel_Phone_Mute
            THEN IF e.value = 1 THEN "e_mled" ELSE "e_unlock"
            ELSE "e_unlock"
  ELSE "e_unlock"

\* the branch taken when every non-zero value of the mute button is a press
EventBranchAnyPress(e) ==
  IF PageOf(e.hid) = TelephonyUsagePage
  THEN IF CodeOf(e.hid) = Tel_Hook_Switch
       THEN IF hookstate # e.value
            THEN IF hookstate = 0 THEN "e_ring" ELSE "e_hook"
            ELSE "e_unlock"
       ELSE IF CodeOf(e.hid) = Tel_Phone_Mute
            THEN IF e.value # 0 THEN "e_mled" ELSE "e_unlock"
            ELSE "e_unlock"
  ELSE "e_unlock"

\* the branch taken when a hook event is written whether or not it differs
\* from the stored hook state
EventBranchNoGuard(e) ==
  IF PageOf(e.hid) = TelephonyUsagePage
  THEN IF CodeOf(e.hid) = Tel_Hook_Switch
       THEN IF hookstate = 0 THEN "e_ring" ELSE "e_hook"
       ELSE IF CodeOf(e.hid) = Tel_Phone_Mute
            THEN IF e.value = 1 THEN "e_mled" ELSE "e_unlock"
            ELSE "e_unlock"
  ELSE "e_unlock"

\* the branch taken when every Telephony usage but the mute button is
\* handled as the hook switch
EventBranchAnyTelephony(e) ==
  IF PageOf(e.hid) = TelephonyUsagePage
  THEN IF CodeOf(e.hid) = Tel_Phone_Mute
       THEN IF e.value = 1 THEN "e_mled" ELSE "e_unlock"
       ELSE IF hookstate # e.value
            THEN IF hookstate = 0 THEN "e_ring" ELSE "e_hook"
            ELSE "e_unlock"
  ELSE "e_unlock"

\* the position after the two switch statements on ev[i].hid
EventBranch(e) ==
  IF PageOf(e.hid) = TelephonyUsagePage
  THEN IF CodeOf(e.hid) = Tel_Hook_Switch
       THEN IF hookstate # e.value
            THEN IF hookstate = 0 THEN "e_ring" ELSE "e_hook"
            ELSE "e_unlock"
       ELSE IF CodeOf(e.hid) = Tel_Phone_Mute
            THEN IF e.value = 1 THEN "e_mled" ELSE "e_unlock"
            ELSE "e_unlock"
  ELSE "e_unlock"

\* switch (ev[i].hid >> 16) ... switch (ev[i].hid & 0xFFFF): the tests of the
\* hook and mute cases, and mutestate = !mutestate of the mute case
Ev_Switch ==
  /\ ProcessAlive
  /\ pc["ev"] = "e_switch"
  /\ pc' = [pc EXCEPT !["ev"] = EventBranch(ev)]
  /\ mutestate' = IF EventBranch(ev) = "e_mled" THEN NotC(mutestate) ELSE mutestate
  /\ UNCHANGED <<fd, hookstate, ringerstate, run, lock, retval, evret, status>>
  /\ UNCHANGED <<devvars, callvars, evvars, histvars, key>>

Ev_Writes ==
  /\ ProcessAlive
  /\ \/ CallWrite("ev", "e_ring", U_Ring, 0, "e_ringer")
     \/ CallWrite("ev", "e_ringer", U_Ringer, 0, "e_hook")
     \/ CallWrite("ev", "e_hook", U_OffHook, ev.value, "e_set")
     \/ CallWrite("ev", "e_mled", U_Mute, mutestate, "e_unlock")

\* an assignment of the hook state that is skipped when the write before it
\* did not succeed
Ev_SetHookUnlessFailed ==
  /\ ProcessAlive
  /\ pc["ev"] = "e_set"
  /\ hookstate' = IF last["ev"].res = "ok" THEN ev.value ELSE hookstate
  /\ pc' = [pc EXCEPT !["ev"] = "e_unlock"]
  /\ UNCHANGED <<fd, mutestate, ringerstate, run, lock, retval, evret, status>>
  /\ UNCHANGED <<devvars, callvars, evvars, histvars, key>>

\* hookstate = ev[i].value
Ev_SetHook ==
  /\ ProcessAlive
  /\ pc["ev"] = "e_set"
  /\ hookstate' = ev.value
  /\ pc' = [pc EXCEPT !["ev"] = "e_unlock"]
  /\ UNCHANGED <<fd, mutestate, ringerstate, run, lock, retval, evret, status>>
  /\ UNCHANGED <<devvars, callvars, evvars, histvars, key>>

\* pthread_mutex_unlock(&lock); i++
Ev_Unlock ==
  /\ ProcessAlive
  /\ pc["ev"] = "e_unlock"
  /\ lock' = "none"
  /\ i' = i + 1
  /\ snap' = [snap EXCEPT !["ev"] = NoSnap]
  /\ cslog' = [cslog EXCEPT !["ev"] = <<>>]
  /\ csok' = [csok EXCEPT !["ev"] = TRUE]
  /\ ev' = NoEvent
  /\ last' = [last EXCEPT !["ev"] = NoCall]
  /\ pc' = [pc EXCEPT !["ev"] = "e_for"]
  /\ UNCHANGED <<fd, mutestate, hookstate, ringerstate, run, retval, evret, status>>
  /\ UNCHANGED <<devvars, rd, lastCmd, hookSeq, flags, key>>

event_loop ==
  \/ Ev_Loop \/ Ev_Select \/ Ev_Read \/ Ev_For \/ Ev_Lock \/ Ev_Switch
  \/ Ev_Writes \/ Ev_SetHook \/ Ev_Unlock

Next == main \/ event_loop

Spec == Init /\ [][Next]_vars

\* Both threads are scheduled fairly: a thread that can take a step
\* eventually takes one.  Every call into the device, select (1 s timeout),
\* read and usleep returns, so a thread is only ever held up in
\* pthread_mutex_lock and pthread_join.
FairSpec == Spec /\ WF_vars(main) /\ WF_vars(event_loop)

\* Fair scheduling with a mutex that does not starve a waiter: a thread
\* blocked in pthread_mutex_lock gets the lock if it is free again and again.
LockFairSpec == FairSpec /\ SF_vars(HitKey_Lock) /\ SF_vars(Ev_Lock)

(***************************************************************************)
(* Properties.                                                             *)
(***************************************************************************)
\* thread t is about to release the lock it took for one operation
AtUnlock(t) == pc[t] = IF t = "main" THEN "k_unlock" ELSE "e_unlock"

\* the call is a writeUsage whose value lies outside the range of its field
WroteOutside(c) ==
  /\ c.fn = "writeUsage"
  /\ \/ c.value < FieldInfo(c.usage_code).logical_minimum
     \/ c.value > FieldInfo(c.usage_code).logical_maximum

Issued(c, req) == \E k \in 1..Len(c.log) : c.log[k] = req

\* C1: a writeUsage call whose value is below logical_minimum or above
\* logical_maximum of the field issues neither HIDIOCSUSAGE nor HIDIOCSREPORT
\* and leaves every output value of the device as it was before the call;
\* when the usage and the field were resolved it ends with the range error.
C1_RangeErrorNoCommit ==
  \A t \in Threads :
    WroteOutside(last[t]) =>
      /\ ~Issued(last[t], "HIDIOCSUSAGE")
      /\ ~Issued(last[t], "HIDIOCSREPORT")
      /\ dev = last[t].before
      /\ (last[t].res \notin {"HIDIOCGUSAGE", "HIDIOCGFIELDINFO"} => last[t].res = "range")

\* a hook-switch event of value -1 was written to the off-hook LED and refused
C1_Witness ==
  /\ last["ev"].fn = "writeUsage"
  /\ last["ev"].value < FieldInfo(last["ev"].usage_code).logical_minimum
  /\ last["ev"].res = "range"

\* C2: a writeUsage call with a value inside the range of its field, none of
\* whose requests the device rejects, issues exactly HIDIOCGUSAGE,
\* HIDIOCGFIELDINFO, HIDIOCSUSAGE, HIDIOCSREPORT, in that order.
C2_FourRequestsInOrder ==
  \A t \in Threads :
    (last[t].fn = "writeUsage" /\ ~WroteOutside(last[t]) /\ ~Rejected(last[t].res)) =>
      last[t].log = <<"HIDIOCGUSAGE", "HIDIOCGFIELDINFO", "HIDIOCSUSAGE", "HIDIOCSREPORT">>

\* a command wrote 1 to a usage and the device took every request
C2_Witness ==
  /\ last["main"].fn = "writeUsage"
  /\ last["main"].value = 1
  /\ last["main"].res = "ok"
  /\ dev[last["main"].usage_code] = 1

\* the writeUsage calls of a pickup: ring LED and ringer tone off, off-hook LED on
PickupWrites ==
  << [usage_code |-> U_Ring, value |-> 0],
     [usage_code |-> U_Ringer, value |-> 0],
     [usage_code |-> U_OffHook, value |-> 1] >>

\* C3: when an operation (a hook-switch event of value 1, or the toggle-hook
\* command) has taken the stored hook state from 0 to 1, its critical section
\* wrote ring LED := 0, then ringer tone := 0, then off-hook LED := 1 and
\* nothing else; when all three writes succeeded the device has ring LED = 0,
\* ringer tone = 0 and off-hook LED = 1, and the stored hook state is 1.
C3_PickupCancelsRingFirst ==
  \A t \in Threads :
    (AtUnlock(t) /\ snap[t].op \in {"event", "o"} /\ snap[t].hook = 0 /\ hookstate = 1) =>
      /\ cslog[t] = PickupWrites
      /\ csok[t] => (dev[U_Ring] = 0 /\ dev[U_Ringer] = 0 /\ dev[U_OffHook] = 1)

\* a hook-switch event of value 1 picked up while the phone was ringing, and
\* all its writes succeeded
C3_Witness ==
  /\ pc["ev"] = "e_unlock"
  /\ IsHookEvent(ev) /\ ev.value = 1
  /\ snap["ev"].hook = 0 /\ hookstate = 1
  /\ ringerstate = 1
  /\ csok["ev"]
  /\ dev[U_Ring] = 0

\* the stored call state is what it was when thread t took the lock
StoredAsSnapped(t) ==
  /\ mutestate = snap[t].mute
  /\ hookstate = snap[t].hook
  /\ ringerstate = snap[t].ring

\* C4: a mute-button event of value 1 flips the stored mute state and writes
\* the mute LED with the new state (and nothing else); a mute-button event of
\* any other value leaves stored mute, hook and ring as they were and issues
\* no device write.
C4_MuteOnlyOnPress ==
  (pc["ev"] = "e_unlock" /\ IsMuteEvent(ev)) =>
    IF ev.value = 1
    THEN /\ mutestate = NotC(snap["ev"].mute)
         /\ hookstate = snap["ev"].hook /\ ringerstate = snap["ev"].ring
         /\ cslog["ev"] = << [usage_code |-> U_Mute, value |-> mutestate] >>
    ELSE /\ StoredAsSnapped("ev")
         /\ cslog["ev"] = <<>>
         /\ last["ev"].fn = "none"

\* a mute-button event of value 2 has been handled
C4_Witness ==
  /\ pc["ev"] = "e_unlock"
  /\ IsMuteEvent(ev)
  /\ ev.value = 2

\* C5 (as the specification states it): when a toggle command ends and the
\* command before it, with no hardware event in between, was the same command,
\* the stored call state is what it was before the first of the two.
C5_TwiceRestores ==
  (pc["main"] = "k_unlock" /\ lastCmd.op = snap["main"].op) =>
    /\ mutestate = lastCmd.mute
    /\ hookstate = lastCmd.hook
    /\ ringerstate = lastCmd.ring

\* C6 (as the specification states it): whenever the lock is free, the stored
\* hook state is the XOR of the initial hook state with all hook-affecting
\* operations (toggle-hook commands, and hook-switch events whose value
\* differs from the stored state) in the order they took the lock.
C6_HookIsXorOfOps ==
  (pc["ev"] # "unborn" /\ lock = "none") => hookstate = hookSeq

\* the critical section of thread t has called writeUsage on usage u with value v
Wrote(t, u, v) ==
  \E k \in 1..Len(cslog[t]) : cslog[t][k] = [usage_code |-> u, value |-> v]

\* C7: when an operation (hardware event or user command) whose writeUsage
\* calls all succeeded is about to release the lock, every stored state it
\* changed has been written to its LED with the new value, and the LED holds
\* it: mute LED for mute, off-hook LED for hook, ring LED for ring.
C7_ChangedFieldWritten ==
  \A t \in Threads :
    (AtUnlock(t) /\ csok[t]) =>
      /\ mutestate # snap[t].mute =>
           (Wrote(t, U_Mute, mutestate) /\ dev[U_Mute] = mutestate)
      /\ hookstate # snap[t].hook =>
           (Wrote(t, U_OffHook, hookstate) /\ dev[U_OffHook] = hookstate)
      /\ ringerstate # snap[t].ring =>
           (Wrote(t, U_Ring, ringerstate) /\ dev[U_Ring] = ringerstate)

\* the second of two mute toggles from mute = 0: the first gave mute = 1, the
\* second gives mute = 0 with the mute LED at 0
C7_Witness ==
  /\ pc["main"] = "k_unlock"
  /\ csok["main"]
  /\ lastCmd.op = "m" /\ lastCmd.mute = 0
  /\ snap["main"].op = "m" /\ snap["main"].mute = 1
  /\ mutestate = 0
  /\ dev[U_Mute] = 0

\* C8 (as the specification states it, for the ring LED): whenever the lock
\* is free, the device is open and no device request was ever rejected (the
\* startup reads included), the ring LED equals the stored ring state.
C8_RingLedMirrorsStored ==
  (pc["ev"] # "unborn" /\ lock = "none" /\ fd = 3 /\ nfail = 0) =>
    dev[U_Ring] = ringerstate

\* C9: a read that returns an error or fewer bytes than one event record ends
\* the event task in the same step with run cleared, before any record of
\* that read is looked at: no stored state and no device value changes.  The
\* task stays ended, run is never set again, and the command loop leaves for
\* the join the next time it tests run.
C9_ShortReadEndsTask ==
  [][ /\ (pc["ev"] = "e_read" /\ pc'["ev"] # "e_read" /\ rd' < EvSize) =>
           /\ pc'["ev"] = "done"
           /\ run' = 0
           /\ UNCHANGED <<mutestate, hookstate, ringerstate, dev, cslog, lock>>
      /\ pc["ev"] = "done" => pc'["ev"] = "done"
      /\ run = 0 => run' = 0
      /\ (pc["main"] = "loop" /\ pc'["main"] # "loop" /\ run = 0) => pc'["main"] = "join"
    ]_vars

\* a read of half a record ended the event task and, with no quit command,
\* the command loop has left for the join
C9_Witness ==
  /\ badread /\ ~quitcmd
  /\ rd = EvSize \div 2
  /\ pc["ev"] = "done"
  /\ pc["main"] = "join"

\* C10 (as the specification states it, for the malformed read): when the
\* process has ended after a short or failed event read, with no quit
\* command, its exit status is not 0.
C10_BadReadExitsNonZero ==
  (pc["main"] = "exit" /\ badread /\ ~quitcmd) => status # 0

\* the statements of thread t between pthread_mutex_lock and
\* pthread_mutex_unlock: the tests, flips and assignments of the stored
\* states and the writeUsage calls
InSection(t) ==
  IF t = "main"
  THEN pc[t] \in {"o_flip", "o_ring", "o_ringer", "o_hook", "m_flip", "m_led",
                  "r_flip", "r_led", "r_ringer", "k_unlock"}
  ELSE pc[t] \in {"e_switch", "e_ring", "e_ringer", "e_hook", "e_set", "e_mled",
                  "e_unlock"}

\* C11: mutual exclusion.  A thread that is handling a hardware event or a
\* toggle command holds the lock, so the two are never handling one at the
\* same time; and once the event thread exists, every step that changes
\* stored mute, hook or ring, or the device, is a step of the thread that
\* holds the lock, which still holds it afterwards.
C11_MutualExclusion ==
  /\ [](\A t \in Threads : InSection(t) => lock = t)
  /\ [][ (pc["ev"] # "unborn" /\
          <<mutestate, hookstate, ringerstate, dev>>' # <<mutestate, hookstate, ringerstate, dev>>)
           => (lock # "none" /\ lock' = lock /\ InSection(lock) /\ pc'[lock] # pc[lock]
               /\ \A t \in Threads \ {lock} : pc'[t] = pc[t]) ]_vars

\* the command task waits for the lock while the event task is writing to
\* the device for a hook event
C11_Witness ==
  /\ pc["main"] = "k_lock"
  /\ pc["ev"] = "e_hook"
  /\ lock = "ev"

\* C12 (as the specification states it): once the event thread has been
\* started, the device handle is closed only when that thread has ended.
C12_CloseAfterThreadEnd ==
  (pc["ev"] # "unborn" /\ fd = -2) => pc["ev"] = "done"

\* C13 (as the specification states it): when the last writeUsage call of an
\* operation ended with a rejected usage or field lookup or with the range
\* error, nothing was committed by that call and the stored call state at the
\* unlock is what it was when the operation took the lock.
C13_FailedWriteKeepsState ==
  \A t \in Threads :
    (AtUnlock(t) /\ last[t].fn = "writeUsage"
       /\ last[t].res \in {"HIDIOCGUSAGE", "HIDIOCGFIELDINFO", "range"}) =>
      (dev = last[t].before /\ StoredAsSnapped(t))

\* the call ended because the device rejected the stage or the commit request
DeviceError(c) == c.fn = "writeUsage" /\ c.res \in {"HIDIOCSUSAGE", "HIDIOCSREPORT"}

\* the stored state that a write to usage u carries
StoredFor(u) ==
  IF u = U_Mute THEN mutestate ELSE IF u = U_OffHook THEN hookstate ELSE ringerstate

\* C14: when the device rejects the stage or commit request of a writeUsage
\* call, the step of the call changes neither a stored state nor run nor the
\* device, the thread keeps the lock and goes on inside its section; at the
\* unlock after a rejected final write the stored state is the new one (not
\* the one found at lock time) while the device still has its old values,
\* and no write of the section was issued twice; the unlock leads back to
\* the command loop and to the event loop.
C14_DeviceErrorKeepsChange ==
  /\ [](\A t \in Threads :
          (AtUnlock(t) /\ DeviceError(last[t])) =>
            /\ StoredFor(last[t].usage_code) = last[t].value
            /\ ~StoredAsSnapped(t)
            /\ dev = last[t].before
            /\ \A j, k \in 1..Len(cslog[t]) : cslog[t][j] = cslog[t][k] => j = k)
  /\ [][ \A t \in Threads :
           /\ (Len(cslog'[t]) = Len(cslog[t]) + 1 /\ DeviceError(last'[t])) =>
                /\ UNCHANGED <<mutestate, hookstate, ringerstate, run, dev, lock>>
                /\ InSection(t)'
           /\ (AtUnlock(t) /\ ~AtUnlock(t)') =>
                pc'[t] = IF t = "main" THEN "loop" ELSE "e_for" ]_vars

\* the commit of the mute LED write of an 'm' command was rejected: the
\* stored mute state is 1, the mute LED is still 0, run is still 1
C14_Witness ==
  /\ pc["main"] = "k_unlock" /\ snap["main"].op = "m"
  /\ last["main"].res = "HIDIOCSREPORT"
  /\ snap["main"].mute = 0 /\ mutestate = 1 /\ dev[U_Mute] = 0
  /\ run = 1

C16_SameHookValueNoOp ==
  /\ (pc["ev"] = "e_unlock" /\ IsHookEvent(ev) /\ ev.value = snap["ev"].hook) =>
       /\ cslog["ev"] = <<>>
       /\ last["ev"].fn = "none"
       /\ StoredAsSnapped("ev")
  /\ (pc["main"] = "k_unlock" /\ snap["main"].op = "o") =>
       /\ hookstate # snap["main"].hook
       /\ hookstate = NotC(snap["main"].hook)
       /\ mutestate = snap["main"].mute /\ ringerstate = snap["main"].ring

\* a hook-switch event of value 1 has been handled while the stored hook
\* state was 1 already
C16_Witness ==
  /\ pc["ev"] = "e_unlock"
  /\ IsHookEvent(ev) /\ ev.value = 1
  /\ snap["ev"].hook = 1 /\ hookstate = 1

\* C17: when an operation (a hook-switch event of value 0, or the toggle-hook
\* command) has taken the stored hook state from 1 to 0, its critical section
\* called writeUsage exactly once, for off-hook LED := 0: nothing was written
\* to the ring LED or the ringer tone; when the write succeeded the off-hook
\* LED is 0.
C17_HangupWritesHookOnly ==
  \A t \in Threads :
    (AtUnlock(t) /\ snap[t].op \in {"event", "o"} /\ snap[t].hook = 1 /\ hookstate = 0) =>
      /\ cslog[t] = << [usage_code |-> U_OffHook, value |-> 0] >>
      /\ ~Wrote(t, U_Ring, 0) /\ ~Wrote(t, U_Ringer, 0)
      /\ csok[t] => dev[U_OffHook] = 0

\* the toggle-hook command has put the hook back while the phone was ringing:
\* the ring LED is still on
C17_Witness ==
  /\ pc["main"] = "k_unlock" /\ snap["main"].op = "o"
  /\ snap["main"].hook = 1 /\ hookstate = 0
  /\ csok["main"]
  /\ ringerstate = 1 /\ dev[U_Ring] = 1

\* C18: the toggle-ringer command flips the stored ring state and calls
\* writeUsage exactly twice with the new value, first for the ring LED and
\* then for the ringer tone; when both succeed, ring LED, ringer tone and
\* stored ring are equal at the unlock; stored mute and hook are unchanged.
C18_RingerToggleTwoWrites ==
  (pc["main"] = "k_unlock" /\ snap["main"].op = "r") =>
    /\ ringerstate = NotC(snap["main"].ring)
    /\ cslog["main"] = << [usage_code |-> U_Ring, value |-> ringerstate],
                          [usage_code |-> U_Ringer, value |-> ringerstate] >>
    /\ csok["main"] => (dev[U_Ring] = ringerstate /\ dev[U_Ringer] = ringerstate)
    /\ mutestate = snap["main"].mute /\ hookstate = snap["main"].hook

\* the ringer was switched on by an 'r' command whose two writes succeeded,
\* with a ringer tone that was off before
C18_Witness ==
  /\ pc["main"] = "k_unlock" /\ snap["main"].op = "r"
  /\ snap["main"].ring = 0 /\ ringerstate = 1
  /\ csok["main"]
  /\ last["main"].before[U_Ringer] = 0 /\ dev[U_Ringer] = 1

\* C19 (as the specification states it): each of stored mute, hook and ring
\* is 0 or 1 in every reachable state.
C19_StoredStatesBoolean ==
  /\ mutestate \in {0, 1}
  /\ hookstate \in {0, 1}
  /\ ringerstate \in {0, 1}

\* an event record that is neither the hook switch nor the mute button
OtherEvent(e) == e # NoEvent /\ ~IsHookEvent(e) /\ ~IsMuteEvent(e)

\* C20: every step the event thread takes for a record that is neither the
\* Telephony hook switch nor the Telephony mute button (a volume increment or
\* decrement, the flash button, a usage of another page), from taking the
\* lock to releasing it, leaves stored mute, hook and ring, the device and
\* run unchanged and calls writeUsage not at all: the switch leads straight
\* to the unlock.
C20_OtherEventsIgnored ==
  [][ (pc'["ev"] # pc["ev"] /\ (OtherEvent(ev) \/ OtherEvent(ev'))) =>
        /\ UNCHANGED <<mutestate, hookstate, ringerstate, dev, run, cslog>>
        /\ last'["ev"].fn = "none"
        /\ pc["ev"] = "e_switch" => pc'["ev"] = "e_unlock" ]_vars

\* a volume-increment event has been handled
C20_Witness ==
  /\ pc["ev"] = "e_unlock"
  /\ ev = [hid |-> UsageCode(ConsumerUsagePage, Con_Volume_Incr), value |-> 1]

\* C21: the lock is never leaked and never deadlocks.  A thread holds the
\* lock only between its pthread_mutex_lock and its pthread_mutex_unlock,
\* whatever the outcome of the writeUsage calls in between, so the event
\* thread that has ended (after a short or failed read, or normally) does
\* not hold it; a thread leaves pthread_mutex_lock only as the holder; and,
\* while the process lives, each thread is again and again neither waiting
\* for the lock nor holding it: a waiter gets the lock and a holder
\* releases it.
C21_LockNeverLeaked ==
  /\ [](\A t \in Threads : lock = t => InSection(t))
  /\ [](pc["ev"] = "done" => lock # "ev")
  /\ [][ /\ (pc["main"] = "k_lock" /\ pc'["main"] # "k_lock" => lock' = "main")
         /\ (pc["ev"] = "e_lock" /\ pc'["ev"] # "e_lock" => lock' = "ev") ]_vars
  /\ []<>(pc["main"] # "k_lock" /\ lock # "main")
  /\ []<>((pc["ev"] # "e_lock" /\ lock # "ev") \/ ~ProcessAlive)

\* the command task is about to release the lock after a toggle whose write
\* the device rejected, while the event task waits for the lock
C21_Witness ==
  /\ pc["main"] = "k_unlock" /\ lock = "main"
  /\ Rejected(last["main"].res)
  /\ pc["ev"] = "e_lock"

====
